---- MODULE Spec2Model ----
(***************************************************************************)
(* The LSTM cell of "Exercise 2a-Building_LSTM.ipynb": sigmoid,            *)
(* lstm_step_forward, lstm_step_backward, lstm_forward, lstm_backward.     *)
(*                                                                         *)
(* numpy arrays are objects on a heap (a sequence of array values, the     *)
(* index being the address); a Python name holds a reference               *)
(* <<address, selector>>, the selector being <<>> for the whole array,     *)
(* <<t>> for the view [:,t,:] and <<lo,hi>> for the view [:,lo:hi,:].      *)
(* An in-place statement (+=, a slice assignment) rewrites the object the  *)
(* reference points to; every other expression allocates a new object.     *)
(*                                                                         *)
(* float64 values are fixed-point integers, One standing for 1.0; np.exp   *)
(* and np.tanh are their values rounded to that grid.  A matrix is a       *)
(* sequence of rows, an (N,T,K) array a sequence over t of N x K matrices. *)
(***************************************************************************)
EXTENDS Integers, Sequences, FiniteSets

VARIABLES
  pc,        \* position of the running cell
  heap,      \* the numpy arrays, by address
  env,       \* the notebook's names: x, h0, Wx, Wh, b, dout, out, cache, grads
  fwd,       \* locals of lstm_forward: h, prev_c, i, seq_cache
  bwd,       \* locals of lstm_backward: dx, dh0, dWx, dWh, db, dprev, dprev_c, i
  calls,     \* every call of lstm_step_forward / lstm_step_backward so far
  sg         \* locals of sigmoid, run statement by statement

vars == <<pc, heap, env, fwd, bwd, calls, sg>>

-----------------------------------------------------------------------------
(* Bounds of the model *)
MaxN == 2
MaxD == 2
MaxH == 2
MaxT == 3
MaxLen == 2

-----------------------------------------------------------------------------
(* float64 on a fixed-point grid *)

\* 1.0
One == 64

Abs(a) == IF a < 0 THEN -a ELSE a

\* nearest grid point of p / q, q > 0
RoundDiv(p, q) == (2 * p + q) \div (2 * q)

\* a * b and a / b of two floats
FMul(a, b) == RoundDiv(a * b, One)
FDiv(a, b) == RoundDiv(a * One, b)

\* np.exp(-k/One) for k = 0, 1, ...; 0.0 past the end
ExpTab ==
  <<
     64, 63, 62, 61, 60, 59, 58, 57, 56, 56, 55, 54, 53, 52, 51, 51, 50, 49, 48, 48,
     47, 46, 45, 45, 44, 43, 43, 42, 41, 41, 40, 39, 39, 38, 38, 37, 36, 36, 35, 35,
     34, 34, 33, 33, 32, 32, 31, 31, 30, 30, 29, 29, 28, 28, 28, 27, 27, 26, 26, 25,
     25, 25, 24, 24, 24, 23, 23, 22, 22, 22, 21, 21, 21, 20, 20, 20, 20, 19, 19, 19,
     18, 18, 18, 17, 17, 17, 17, 16, 16, 16, 16, 15, 15, 15, 15, 15, 14, 14, 14, 14,
     13, 13, 13, 13, 13, 12, 12, 12, 12, 12, 11, 11, 11, 11, 11, 11, 10, 10, 10, 10,
     10, 10, 10, 9, 9, 9, 9, 9, 9, 9, 8, 8, 8, 8, 8, 8, 8, 8, 7, 7,
     7, 7, 7, 7, 7, 7, 7, 6, 6, 6, 6, 6, 6, 6, 6, 6, 6, 6, 5, 5,
     5, 5, 5, 5, 5, 5, 5, 5, 5, 5, 4, 4, 4, 4, 4, 4, 4, 4, 4, 4,
     4, 4, 4, 4, 4, 4, 3, 3, 3, 3, 3, 3, 3, 3, 3, 3, 3, 3, 3, 3,
     3, 3, 3, 3, 3, 3, 3, 3, 2, 2, 2, 2, 2, 2, 2, 2, 2, 2, 2, 2,
     2, 2, 2, 2, 2, 2, 2, 2, 2, 2, 2, 2, 2, 2, 2, 2, 2, 2, 2, 2,
     2, 1, 1, 1, 1, 1, 1, 1, 1, 1, 1, 1, 1, 1, 1, 1, 1, 1, 1, 1,
     1, 1, 1, 1, 1, 1, 1, 1, 1, 1, 1, 1, 1, 1, 1, 1, 1, 1, 1, 1,
     1, 1, 1, 1, 1, 1, 1, 1, 1, 1, 1, 1, 1, 1, 1, 1, 1, 1, 1, 1,
     1, 1, 1, 1, 1, 1, 1, 1, 1, 1, 1, 0 >>

\* np.tanh(k/One) for k = 0, 1, ...; 1.0 past the end
TanhTab ==
  <<
     0, 1, 2, 3, 4, 5, 6, 7, 8, 9, 10, 11, 12, 13, 14, 15, 16, 17, 18, 18,
     19, 20, 21, 22, 23, 24, 25, 26, 26, 27, 28, 29, 30, 30, 31, 32, 33, 33, 34, 35,
     35, 36, 37, 38, 38, 39, 39, 40, 41, 41, 42, 42, 43, 43, 44, 45, 45, 46, 46, 47,
     47, 47, 48, 48, 49, 49, 50, 50, 50, 51, 51, 51, 52, 52, 52, 53, 53, 53, 54, 54,
     54, 55, 55, 55, 55, 56, 56, 56, 56, 57, 57, 57, 57, 57, 58, 58, 58, 58, 58, 58,
     59, 59, 59, 59, 59, 59, 60, 60, 60, 60, 60, 60, 60, 60, 60, 61, 61, 61, 61, 61,
     61, 61, 61, 61, 61, 61, 62, 62, 62, 62, 62, 62, 62, 62, 62, 62, 62, 62, 62, 62,
     62, 62, 63, 63, 63, 63, 63, 63, 63, 63, 63, 63, 63, 63, 63, 63, 63, 63, 63, 63,
     63, 63, 63, 63, 63, 63, 63, 63, 63, 63, 63, 63, 63, 63, 63, 63, 63, 63, 64 >>

\* np.exp of one element.  A positive argument grows without bound; the
\* grid saturates at One * One (float64 overflows to inf).
Exp(a) ==
  IF a <= 0
    THEN IF -a < Len(ExpTab) THEN ExpTab[-a + 1] ELSE 0
    ELSE IF a < Len(ExpTab) /\ ExpTab[a + 1] > 0
           THEN RoundDiv(One * One, ExpTab[a + 1])
           ELSE One * One

\* np.tanh of one element
Tanh(a) ==
  LET m == IF Abs(a) < Len(TanhTab) THEN TanhTab[Abs(a) + 1] ELSE One
  IN  IF a < 0 THEN -m ELSE m

-----------------------------------------------------------------------------------------------------------------------------------------------------
(* numpy on matrices (sequences of rows) and vectors *)

\* F(e), with e evaluated once
With(e, F(_)) == CHOOSE y \in {F(v) : v \in {e}} : TRUE

Rows(A) == Len(A)
Cols(A) == IF Len(A) = 0 THEN 0 ELSE Len(A[1])

\* the vector F(1), .., F(k) and the n x k matrix of F(r, c), as tuples
Vec(k, F(_)) == [c \in 1..k |-> F(c)] \o <<>>
Mat(n, k, F(_, _)) == Vec(n, LAMBDA r : Vec(k, LAMBDA c : F(r, c)))

\* np.zeros((n, k)), np.zeros((k)), np.zeros((n, t, k))
Zeros(n, k) == Mat(n, k, LAMBDA r, c : 0)
Zeros1(k) == Vec(k, LAMBDA c : 0)
Zeros3(n, t, k) == Vec(t, LAMBDA s : Zeros(n, k))

Map1(F(_), A) ==
  With(A, LAMBDA a : Mat(Rows(a), Cols(a), LAMBDA r, c : F(a[r][c])))
Map2(F(_, _), A, B) ==
  With(<<A, B>>, LAMBDA p :
    Mat(Rows(p[1]), Cols(p[1]), LAMBDA r, c : F(p[1][r][c], p[2][r][c])))

Plus(a, b) == a + b
OneMinus(a) == One - a
Square(a) == FMul(a, a)

\* A + B, A * B (elementwise), 1 - A, A ** 2, np.tanh(A)
Add(A, B) == Map2(Plus, A, B)
Mul(A, B) == Map2(FMul, A, B)
Sub1(A) == Map1(OneMinus, A)
Sq(A) == Map1(Square, A)
TanhM(A) == Map1(Tanh, A)

\* u + v of two vectors
AddV(u, v) == With(<<u, v>>, LAMBDA p : Vec(Len(p[1]), LAMBDA c : p[1][c] + p[2][c]))

\* A + b with b broadcast over the rows
AddBias(A, b) ==
  With(<<A, b>>, LAMBDA p :
    Mat(Rows(p[1]), Cols(p[1]), LAMBDA r, c : p[1][r][c] + p[2][c]))

\* f[1] + .. + f[n]
RECURSIVE SumTo(_, _)
SumTo(f, n) == IF n = 0 THEN 0 ELSE f[n] + SumTo(f, n - 1)
Sum(f) == With(f, LAMBDA g : SumTo(g, Len(g)))

\* A.dot(B)
Dot(A, B) ==
  With(<<A, B>>, LAMBDA p :
    Mat(Rows(p[1]), Cols(p[2]), LAMBDA r, c :
      RoundDiv(Sum(Vec(Cols(p[1]), LAMBDA k : p[1][r][k] * p[2][k][c])), One)))

\* A.T
Transpose(A) == With(A, LAMBDA a : Mat(Cols(a), Rows(a), LAMBDA c, r : a[r][c]))

\* np.sum(A, axis=0)
ColSum(A) ==
  With(A, LAMBDA a : Vec(Cols(a), LAMBDA c : Sum(Vec(Rows(a), LAMBDA r : a[r][c]))))

\* A[:, lo:hi] (0-based, hi excluded)
Slice(A, lo, hi) ==
  With(A, LAMBDA a : Mat(Rows(a), hi - lo, LAMBDA r, c : a[r][lo + c]))

\* A[:, lo:hi] = B
SetSlice(A, lo, hi, B) ==
  With(<<A, B>>, LAMBDA p :
    Mat(Rows(p[1]), Cols(p[1]), LAMBDA r, c :
      IF lo < c /\ c <= hi THEN p[2][r][c - lo] ELSE p[1][r][c]))

-----------------------------------------------------------------------------
(* sigmoid, statement by statement.  L holds its locals; exp_args is the   *)
(* set of <<row, column, argument>> np.exp has been evaluated at.          *)

Cells(A) == (1..Rows(A)) \X (1..Cols(A))

\* a bug: x > 0, which leaves 0.0 in neither branch
sigmoid_pos_mask_strict(x) == With(x, LAMBDA a : Mat(Rows(a), Cols(a), LAMBDA r, c : a[r][c] > 0))

\* x >= 0 and x < 0
sigmoid_pos_mask(x) == With(x, LAMBDA a : Mat(Rows(a), Cols(a), LAMBDA r, c : a[r][c] >= 0))
sigmoid_neg_mask(x) == With(x, LAMBDA a : Mat(Rows(a), Cols(a), LAMBDA r, c : a[r][c] < 0))

\* z[mask] = np.exp(sign * x[mask])
sigmoid_exp(L, mask, sign) ==
  With(<<L, mask>>, LAMBDA p :
    [p[1] EXCEPT
       !.z = Mat(Rows(p[1].x), Cols(p[1].x), LAMBDA r, c :
                IF p[2][r][c] THEN Exp(sign * p[1].x[r][c]) ELSE p[1].z[r][c]),
       !.exp_args = @ \cup {<<rc[1], rc[2], sign * p[1].x[rc[1]][rc[2]]>> :
                              rc \in {q \in Cells(p[1].x) : p[2][q[1]][q[2]]}}])

sigmoid_enter(x) ==
  [x |-> x, pos_mask |-> <<>>, neg_mask |-> <<>>, z |-> <<>>, top |-> <<>>,
   ret |-> <<>>, exp_args |-> {}]
sigmoid_l78(L) == With(L, LAMBDA l : [l EXCEPT !.pos_mask = sigmoid_pos_mask(l.x)])
sigmoid_l79(L) == With(L, LAMBDA l : [l EXCEPT !.neg_mask = sigmoid_neg_mask(l.x)])
sigmoid_l80(L) == With(L, LAMBDA l : [l EXCEPT !.z = Zeros(Rows(l.x), Cols(l.x))])
sigmoid_l81(L) == With(L, LAMBDA l : sigmoid_exp(l, l.pos_mask, -1))
sigmoid_l82(L) == With(L, LAMBDA l : sigmoid_exp(l, l.neg_mask, 1))
sigmoid_l83(L) ==
  With(L, LAMBDA l : [l EXCEPT !.top = Mat(Rows(l.x), Cols(l.x), LAMBDA r, c : One)])
sigmoid_l84(L) ==
  With(L, LAMBDA l :
    [l EXCEPT !.top = Mat(Rows(l.x), Cols(l.x), LAMBDA r, c :
                        IF l.neg_mask[r][c] THEN l.z[r][c] ELSE l.top[r][c])])
sigmoid_l85(L) ==
  With(L, LAMBDA l :
    [l EXCEPT !.ret = Mat(Rows(l.x), Cols(l.x), LAMBDA r, c :
                        FDiv(l.top[r][c], One + l.z[r][c]))])

sigmoid_run(x) ==
  sigmoid_l85(sigmoid_l84(sigmoid_l83(sigmoid_l82(sigmoid_l81(
    sigmoid_l80(sigmoid_l79(sigmoid_l78(sigmoid_enter(x)))))))))

sigmoid(x) == sigmoid_run(x).ret

-----------------------------------------------------------------------------
(* The heap.  An (N,T,K) array is [N, K, slabs], slabs[t+1] being [:,t,:]. *)

Whole == <<>>
Ref(a) == <<a, Whole>>
Addr(r) == r[1]
Sel(r) == r[2]

Array3(n, k, slabs) == [N |-> n, K |-> k, slabs |-> slabs]

\* the value a reference denotes
Deref(hp, r) ==
  IF Len(Sel(r)) = 0 THEN hp[Addr(r)]
  ELSE IF Len(Sel(r)) = 1 THEN hp[Addr(r)].slabs[Sel(r)[1] + 1]
  ELSE Array3(hp[Addr(r)].N, hp[Addr(r)].K,
              SubSeq(hp[Addr(r)].slabs, Sel(r)[1] + 1, Sel(r)[2]))

\* r[...] = v: the object behind r is rewritten in place
Store(hp, r, v) ==
  IF Len(Sel(r)) = 0 THEN [hp EXCEPT ![Addr(r)] = v]
  ELSE [hp EXCEPT ![Addr(r)].slabs[Sel(r)[1] + 1] = v]

\* a[:,t,:] of a reference a to an (N,T,K) array or to a view [:,lo:hi,:] of one
At(a, t) == <<Addr(a), <<(IF Len(Sel(a)) = 2 THEN Sel(a)[1] ELSE 0) + t>>>>

\* a.shape[1] of such a reference
TimeLen(hp, a) == Len(Deref(hp, a).slabs)

-----------------------------------------------------------------------------
(* lstm_step_forward *)

\* the column ranges [lo, hi) the four gates are read from, in the order
\* input, forget, output, block_input; W is the width of activation
lstm_step_forward_blocks(H, W) ==
  << <<0, H>>, <<H, 2 * H>>, <<2 * H, 3 * H>>, <<3 * H, W>> >>

\* x.dot(Wx) + prev_h.dot(Wh) + b
lstm_step_forward_l133(x, prev_h, Wx, Wh, b) ==
  AddBias(Add(Dot(x, Wx), Dot(prev_h, Wh)), b)

\* forget * prev_c + input * block_input
lstm_step_forward_l137(forget, prev_c, input, block_input) ==
  Add(Mul(forget, prev_c), Mul(input, block_input))

\* output * np.tanh(next_c)
lstm_step_forward_l138(output, next_c) == Mul(output, TanhM(next_c))

\* the arguments are references; the result holds the heap after the call,
\* the references returned and the cache tuple (1-based here, 0-based there)
lstm_step_forward(hp, x, prev_h, prev_c, Wx, Wh, b) ==
  With(lstm_step_forward_l133(Deref(hp, x), Deref(hp, prev_h), Deref(hp, Wx),
                              Deref(hp, Wh), Deref(hp, b)), LAMBDA activation :
  With(lstm_step_forward_blocks(Cols(Deref(hp, prev_h)), Cols(activation)), LAMBDA blk :
  With(sigmoid(Slice(activation, blk[1][1], blk[1][2])), LAMBDA input :
  With(sigmoid(Slice(activation, blk[2][1], blk[2][2])), LAMBDA forget :
  With(sigmoid(Slice(activation, blk[3][1], blk[3][2])), LAMBDA output :
  With(TanhM(Slice(activation, blk[4][1], blk[4][2])), LAMBDA block_input :
  With(lstm_step_forward_l137(forget, Deref(hp, prev_c), input, block_input), LAMBDA next_c :
  With(lstm_step_forward_l138(output, next_c), LAMBDA next_h :
  With(Len(hp), LAMBDA n :
    [heap |-> hp \o <<activation, input, forget, output, block_input, next_c, next_h>>,
     next_h |-> Ref(n + 7),
     next_c |-> Ref(n + 6),
     cache |-> <<x, prev_h, prev_c, Ref(n + 7), Ref(n + 6), Wx, Wh, b,
                 Ref(n + 1), Ref(n + 2), Ref(n + 3), Ref(n + 4), Ref(n + 5)>>])))))))))

-----------------------------------------------------------------------------
(* lstm_step_backward *)

\* a bug: the forget and output blocks of dactivation exchanged
lstm_step_backward_blocks_swapped(H) ==
  << <<0, H>>, <<2 * H, 3 * H>>, <<H, 2 * H>>, <<3 * H, 4 * H>> >>

\* the column ranges [lo, hi) of dactivation written for the gates, in the
\* order input, forget, output, block_input
lstm_step_backward_blocks(H) ==
  << <<0, H>>, <<H, 2 * H>>, <<2 * H, 3 * H>>, <<3 * H, 4 * H>> >>

\* dnext_c += dnext_h*output*(1-np.tanh(next_c)**2): the heap after it
lstm_step_backward_l169(hp, dnext_h, dnext_c, cache) ==
  Store(hp, dnext_c,
        Add(Deref(hp, dnext_c),
            Mul(Mul(Deref(hp, dnext_h), Deref(hp, cache[12])),
                Sub1(Sq(TanhM(Deref(hp, cache[5])))))))

\* dactivation = np.zeros((N, 4*H)) and its four slice assignments; g is
\* <<dinput_gate, dforget_gate, doutput_gate, dblock_input>>
lstm_step_backward_l178(N, H, blk, g, input, forget, output, block_input) ==
  SetSlice(
    SetSlice(
      SetSlice(
        SetSlice(Zeros(N, 4 * H),
                 blk[1][1], blk[1][2], Mul(Mul(g[1], input), Sub1(input))),
        blk[2][1], blk[2][2], Mul(Mul(g[2], forget), Sub1(forget))),
      blk[3][1], blk[3][2], Mul(Mul(g[3], output), Sub1(output))),
    blk[4][1], blk[4][2], Mul(g[4], Sub1(Sq(block_input))))

\* how many of the four slice assignments write column c (1-based)
lstm_step_backward_writes(H, blk) ==
  Vec(4 * H, LAMBDA c : Cardinality({k \in 1..4 : blk[k][1] < c /\ c <= blk[k][2]}))

\* the arguments are references; the result holds the heap after the call
\* and the references returned, with that of the local dactivation
lstm_step_backward(hp, dnext_h, dnext_c, cache) ==
  With(lstm_step_backward_l169(hp, dnext_h, dnext_c, cache), LAMBDA h1 :
  With(<<Rows(Deref(hp, dnext_h)), Cols(Deref(hp, dnext_h))>>, LAMBDA NH :
  With(lstm_step_backward_blocks(NH[2]), LAMBDA blk :
  With(Mul(Deref(h1, dnext_c), Deref(h1, cache[11])), LAMBDA dprev_c :
  With(Mul(Deref(h1, dnext_c), Deref(h1, cache[13])), LAMBDA dinput_gate :
  With(Mul(Deref(h1, dnext_c), Deref(h1, cache[10])), LAMBDA dblock_input :
  With(Mul(Deref(h1, dnext_c), Deref(h1, cache[3])), LAMBDA dforget_gate :
  With(Mul(Deref(h1, dnext_h), TanhM(Deref(h1, cache[5]))), LAMBDA doutput_gate :
  With(lstm_step_backward_l178(NH[1], NH[2], blk,
         <<dinput_gate, dforget_gate, doutput_gate, dblock_input>>,
         Deref(h1, cache[10]), Deref(h1, cache[11]), Deref(h1, cache[12]),
         Deref(h1, cache[13])), LAMBDA dactivation :
  With(Dot(dactivation, Transpose(Deref(h1, cache[6]))), LAMBDA dx :
  With(Dot(Transpose(Deref(h1, cache[1])), dactivation), LAMBDA dWx :
  With(Dot(Transpose(Deref(h1, cache[2])), dactivation), LAMBDA dWh :
  With(Dot(dactivation, Transpose(Deref(h1, cache[7]))), LAMBDA dprev_h :
  With(ColSum(dactivation), LAMBDA db :
  With(Len(h1), LAMBDA n :
    [heap |-> h1 \o <<dprev_c, dactivation, dx, dWx, dWh, dprev_h, db>>,
     dx |-> Ref(n + 3), dprev_h |-> Ref(n + 6), dprev_c |-> Ref(n + 1),
     dWx |-> Ref(n + 4), dWh |-> Ref(n + 5), db |-> Ref(n + 7),
     dactivation |-> Ref(n + 2),
     writes |-> lstm_step_backward_writes(NH[2], blk)])))))))))))))))

-----------------------------------------------------------------------------
(* The arrays the notebook's cells build: evenly spaced values reshaped,   *)
(* as np.linspace(..).reshape(..) gives; a generator is <<first, step>>.   *)

Lin(g, k) == g[1] + k * g[2]

\* .reshape(n, k)
LinMatrix(g, n, k) == Mat(n, k, LAMBDA r, c : Lin(g, (r - 1) * k + (c - 1)))
\* a vector of k values
LinVector(g, k) == Vec(k, LAMBDA c : Lin(g, c - 1))
\* .reshape(n, t, k)
LinArray3(g, n, t, k) ==
  Array3(n, k, Vec(t, LAMBDA s : Mat(n, k, LAMBDA r, c :
                  Lin(g, ((r - 1) * t + (s - 1)) * k + (c - 1)))))

XGens == {<<-26, 9>>, <<38, -11>>}
H0Gens == {<<-26, 15>>, <<51, -20>>}
WxGen == <<-13, 5>>
WhGen == <<-19, 4>>
BGen == <<13, 3>>
DoutGens == {<<-40, 17>>, <<30, -9>>}

\* the elements sigmoid is tried on: 0.0, small and large of either sign
SigmoidInputs == {0, 1, -1, 40, -40, 10000 * One, -10000 * One}

NoLocals == <<>>
NoCalls == [fwd |-> <<>>, bwd |-> <<>>]

-----------------------------------------------------------------------------
(* lstm_forward *)

\* a bug: the cell state starts as a copy of h0
lstm_forward_l225_h0(h0) == Mat(Rows(h0), Cols(h0), LAMBDA r, c : h0[r][c])

\* np.zeros_like(h0)
lstm_forward_l225(h0) == Zeros(Rows(h0), Cols(h0))

\* a bug: h[:,:-1,:], which keeps h0 and drops the last step
lstm_forward_l230_shifted(hp, h) == <<Addr(h), <<0, TimeLen(hp, h) - 1>>>>

\* h[:,1:,:]
lstm_forward_l230(hp, h) == <<Addr(h), <<1, TimeLen(hp, h)>>>>

\* d[i] = v of a dict
DictPut(d, i, v) == [k \in DOMAIN d \cup {i} |-> IF k = i THEN v ELSE d[k]]

\* h, cache = lstm_forward(x, h0, Wx, Wh, b): entry, up to the loop
CallForward ==
  /\ pc = "start"
  /\ \E N \in {Deref(heap, env.x).N}, T \in {TimeLen(heap, env.x)},
        H \in {Rows(Deref(heap, env.Wh))}, h \in {Ref(Len(heap) + 1)} :
       \E h1 \in {Append(heap, Array3(N, H, Zeros3(N, T + 1, H)))} :
         \E h2 \in {Store(h1, At(h, 0), Deref(h1, env.h0))} :
           /\ heap' = Append(h2, lstm_forward_l225(Deref(h2, env.h0)))
           /\ fwd' = [x |-> env.x, h0 |-> env.h0, Wx |-> env.Wx, Wh |-> env.Wh,
                      b |-> env.b, T |-> T, h |-> h, prev_c |-> Ref(Len(h2) + 1),
                      i |-> 0, seq_cache |-> <<>>]
  /\ pc' = "fwd_loop"
  /\ UNCHANGED <<env, bwd, calls, sg>>

\* one pass of "for i in range(T)"
ForwardStep ==
  /\ pc = "fwd_loop"
  /\ fwd.i < fwd.T
  /\ \E i \in {fwd.i}, xi \in {At(fwd.x, fwd.i)}, hi \in {At(fwd.h, fwd.i)} :
       \E r \in {lstm_step_forward(heap, xi, hi, fwd.prev_c, fwd.Wx, fwd.Wh, fwd.b)} :
         /\ heap' = Store(r.heap, At(fwd.h, i + 1), Deref(r.heap, r.next_h))
         /\ fwd' = [fwd EXCEPT !.prev_c = r.next_c,
                               !.seq_cache = DictPut(fwd.seq_cache, i, r.cache),
                               !.i = i + 1]
         /\ calls' = [calls EXCEPT !.fwd = Append(@,
              [i |-> i, x |-> xi, prev_h |-> hi, prev_c |-> fwd.prev_c,
               pre |-> heap, post |-> r.heap,
               next_h |-> r.next_h, next_c |-> r.next_c, cache |-> r.cache])]
  /\ UNCHANGED <<pc, env, bwd, sg>>

\* the loop is over: h = h[:,1:,:]; return h, seq_cache
ForwardReturn ==
  /\ pc = "fwd_loop"
  /\ fwd.i >= fwd.T
  /\ env' = [env EXCEPT !.out = lstm_forward_l230(heap, fwd.h),
                        !.cache = fwd.seq_cache]
  /\ pc' = "fwd_ret"
  /\ UNCHANGED <<heap, fwd, bwd, calls, sg>>

\* dout = np.random.randn(*out.shape)
DrawDout ==
  /\ pc = "fwd_ret"
  /\ \E g \in DoutGens, out \in {Deref(heap, env.out)} :
       /\ heap' = Append(heap, LinArray3(g, out.N, Len(out.slabs), out.K))
       /\ env' = [env EXCEPT !.dout = Ref(Len(heap) + 1)]
  /\ pc' = "dout"
  /\ UNCHANGED <<fwd, bwd, calls, sg>>

-----------------------------------------------------------------------------
(* lstm_backward *)

\* a bug: dh_current = dh[:,i,:]; dh_current += dprev, on the view itself
lstm_backward_l269_inplace(hp, dh, i, dprev) ==
  [heap |-> Store(hp, At(dh, i), Add(Deref(hp, At(dh, i)), Deref(hp, dprev))),
   dh_current |-> At(dh, i)]

\* a bug: dh_current = dh[:,i,:] + 0, the carried gradient dropped
lstm_backward_l269_nocarry(hp, dh, i, dprev) ==
  [heap |-> Append(hp, Deref(hp, At(dh, i))), dh_current |-> Ref(Len(hp) + 1)]

\* dh_current = dh[:,i,:] + dprev: the heap after it and the new array
lstm_backward_l269(hp, dh, i, dprev) ==
  [heap |-> Append(hp, Add(Deref(hp, At(dh, i)), Deref(hp, dprev))),
   dh_current |-> Ref(Len(hp) + 1)]

\* a bug: the caches taken in forward order while i runs backward
lstm_backward_l270_forward(cache, i) == cache[Cardinality(DOMAIN cache) - 1 - i]

\* cache[i]
lstm_backward_l270(cache, i) == cache[i]

\* dx[:,i,:] += dx_t
lstm_backward_l271(hp, dx, i, dx_t) ==
  Store(hp, At(dx, i), Add(Deref(hp, At(dx, i)), Deref(hp, dx_t)))

\* db += db_t
lstm_backward_l272(hp, db, db_t) ==
  Store(hp, db, AddV(Deref(hp, db), Deref(hp, db_t)))

\* a bug: dWx = dWx_t, the earlier steps' share lost
lstm_backward_l273_assign(hp, dWx, dWx_t) == Store(hp, dWx, Deref(hp, dWx_t))

\* dWx += dWx_t
lstm_backward_l273(hp, dWx, dWx_t) ==
  Store(hp, dWx, Add(Deref(hp, dWx), Deref(hp, dWx_t)))

\* dWh += dWh_t
lstm_backward_l274(hp, dWh, dWh_t) ==
  Store(hp, dWh, Add(Deref(hp, dWh), Deref(hp, dWh_t)))

\* dh0 += dprev
lstm_backward_l276(hp, dh0, dprev) ==
  Store(hp, dh0, Add(Deref(hp, dh0), Deref(hp, dprev)))

\* lstm_backward(dout, cache) on an empty cache: cache[0] raises KeyError
BackwardKeyError ==
  /\ pc = "dout"
  /\ 0 \notin DOMAIN env.cache
  /\ pc' = "KeyError"
  /\ UNCHANGED <<heap, env, fwd, bwd, calls, sg>>

\* a bug: D read as "cache[0][0].shape[1] if cache else 0", so that an
\* empty cache no longer stops lstm_backward
CallBackward_nolookup ==
  /\ pc = "dout"
  /\ \E dh \in {Deref(heap, env.dout)}, n \in {Len(heap)},
        D \in {IF 0 \in DOMAIN env.cache
                 THEN Cols(Deref(heap, env.cache[0][1])) ELSE 0} :
       \E N \in {dh.N}, T \in {Len(dh.slabs)}, H \in {dh.K} :
         /\ heap' = heap \o
               << Array3(N, D, Zeros3(N, T, D)), Zeros(N, H), Zeros(D, 4 * H),
                  Zeros(H, 4 * H), Zeros1(4 * H), Zeros(N, H), Zeros(N, H),
                  Zeros(N, H) >>
         /\ bwd' = [dh |-> env.dout, cache |-> env.cache, T |-> T,
                    dx |-> Ref(n + 1), dh0 |-> Ref(n + 2), dWx |-> Ref(n + 3),
                    dWh |-> Ref(n + 4), db |-> Ref(n + 5), dprev |-> Ref(n + 6),
                    dprev_h |-> Ref(n + 7), dprev_c |-> Ref(n + 8),
                    i |-> T - 1, entry |-> heap]
  /\ pc' = "bwd_loop"
  /\ UNCHANGED <<env, fwd, calls, sg>>

\* dx, dh0, dWx, dWh, db = lstm_backward(dout, cache): entry, up to the loop
CallBackward ==
  /\ pc = "dout"
  /\ 0 \in DOMAIN env.cache
  /\ \E dh \in {Deref(heap, env.dout)}, n \in {Len(heap)},
        D \in {Cols(Deref(heap, env.cache[0][1]))} :
       \E N \in {dh.N}, T \in {Len(dh.slabs)}, H \in {dh.K} :
         /\ heap' = heap \o
               << Array3(N, D, Zeros3(N, T, D)), Zeros(N, H), Zeros(D, 4 * H),
                  Zeros(H, 4 * H), Zeros1(4 * H), Zeros(N, H), Zeros(N, H),
                  Zeros(N, H) >>
         /\ bwd' = [dh |-> env.dout, cache |-> env.cache, T |-> T,
                    dx |-> Ref(n + 1), dh0 |-> Ref(n + 2), dWx |-> Ref(n + 3),
                    dWh |-> Ref(n + 4), db |-> Ref(n + 5), dprev |-> Ref(n + 6),
                    dprev_h |-> Ref(n + 7), dprev_c |-> Ref(n + 8),
                    i |-> T - 1, entry |-> heap]
  /\ pc' = "bwd_loop"
  /\ UNCHANGED <<env, fwd, calls, sg>>

\* one pass of "for i in reversed(range(T))"
BackwardStep ==
  /\ pc = "bwd_loop"
  /\ bwd.i >= 0
  /\ \E i \in {bwd.i}, cache \in {lstm_backward_l270(bwd.cache, bwd.i)},
        s \in {lstm_backward_l269(heap, bwd.dh, bwd.i, bwd.dprev)} :
       \E h1 \in {s.heap}, dh_current \in {s.dh_current} :
         \E r \in {lstm_step_backward(h1, dh_current, bwd.dprev_c, cache)} :
           \E h2 \in {lstm_backward_l271(r.heap, bwd.dx, i, r.dx)} :
             \E h3 \in {lstm_backward_l272(h2, bwd.db, r.db)} :
               \E h4 \in {lstm_backward_l273(h3, bwd.dWx, r.dWx)} :
                 /\ heap' = lstm_backward_l274(h4, bwd.dWh, r.dWh)
                 /\ bwd' = [bwd EXCEPT !.dprev = r.dprev_h,
                                       !.dprev_c = r.dprev_c, !.i = i - 1]
                 /\ calls' = [calls EXCEPT !.bwd = Append(@,
                      [i |-> i, dnext_h |-> dh_current,
                       dnext_c |-> bwd.dprev_c, cache |-> cache,
                       dprev |-> bwd.dprev, before |-> heap, pre |-> h1,
                       post |-> r.heap,
                       ret |-> [f \in DOMAIN r \ {"heap"} |-> r[f]]])]
  /\ UNCHANGED <<pc, env, fwd, sg>>

\* the loop is over: dh0 += dprev; return dx, dh0, dWx, dWh, db
BackwardReturn ==
  /\ pc = "bwd_loop"
  /\ bwd.i < 0
  /\ heap' = lstm_backward_l276(heap, bwd.dh0, bwd.dprev)
  /\ env' = [env EXCEPT !.grads = <<bwd.dx, bwd.dh0, bwd.dWx, bwd.dWh, bwd.db>>]
  /\ pc' = "done"
  /\ UNCHANGED <<fwd, bwd, calls, sg>>

-----------------------------------------------------------------------------
(* The forward / backward cell: x, h0, Wx, Wh, b of every shape within the *)
(* bounds, then lstm_forward, dout, lstm_backward.                         *)

Init ==
  \E N \in 1..MaxN, D \in 1..MaxD, H \in 1..MaxH, T \in 0..MaxT,
     gx \in XGens, gh \in H0Gens :
    /\ pc = "start"
    /\ heap = << LinArray3(gx, N, T, D), LinMatrix(gh, N, H),
                 LinMatrix(WxGen, D, 4 * H), LinMatrix(WhGen, H, 4 * H),
                 LinVector(BGen, 4 * H) >>
    /\ env = [x |-> Ref(1), h0 |-> Ref(2), Wx |-> Ref(3), Wh |-> Ref(4),
              b |-> Ref(5), out |-> <<>>, cache |-> <<>>, dout |-> <<>>,
              grads |-> <<>>]
    /\ fwd = NoLocals
    /\ bwd = NoLocals
    /\ calls = NoCalls
    /\ sg = NoLocals

Next ==
  \/ CallForward
  \/ ForwardStep
  \/ ForwardReturn
  \/ DrawDout
  \/ BackwardKeyError
  \/ CallBackward
  \/ BackwardStep
  \/ BackwardReturn

Spec == Init /\ [][Next]_vars

-----------------------------------------------------------------------------
(* sigmoid alone, one statement at a time, on every 1 x n array of         *)
(* SigmoidInputs with n up to MaxLen.                                      *)

SigmoidArrays ==
  UNION {{<<Vec(n, LAMBDA c : v[c])>> : v \in [1..n -> SigmoidInputs]} : n \in 1..MaxLen}

SigmoidInit ==
  /\ pc = "l78"
  /\ sg \in {sigmoid_enter(x) : x \in SigmoidArrays}
  /\ heap = <<>>
  /\ env = NoLocals
  /\ fwd = NoLocals
  /\ bwd = NoLocals
  /\ calls = NoCalls

SigmoidAt(at, to, L) ==
  /\ pc = at
  /\ sg' = L
  /\ pc' = to
  /\ UNCHANGED <<heap, env, fwd, bwd, calls>>

Sigmoid78 == SigmoidAt("l78", "l79", sigmoid_l78(sg))
Sigmoid79 == SigmoidAt("l79", "l80", sigmoid_l79(sg))
Sigmoid80 == SigmoidAt("l80", "l81", sigmoid_l80(sg))
Sigmoid81 == SigmoidAt("l81", "l82", sigmoid_l81(sg))
Sigmoid82 == SigmoidAt("l82", "l83", sigmoid_l82(sg))
Sigmoid83 == SigmoidAt("l83", "l84", sigmoid_l83(sg))
Sigmoid84 == SigmoidAt("l84", "l85", sigmoid_l84(sg))
Sigmoid85 == SigmoidAt("l85", "ret", sigmoid_l85(sg))

SigmoidNext ==
  \/ Sigmoid78
  \/ Sigmoid79
  \/ Sigmoid80
  \/ Sigmoid81
  \/ Sigmoid82
  \/ Sigmoid83
  \/ Sigmoid84
  \/ Sigmoid85

SpecSigmoid == SigmoidInit /\ [][SigmoidNext]_vars

-----------------------------------------------------------------------------
(* Properties *)

\* the positions of the running cell at which lstm_forward has returned
ForwardReturned == pc \in {"fwd_ret", "dout", "bwd_loop", "done", "KeyError"}

\* the caller's arrays, which no step rewrites
XAt(t) == Deref(heap, At(env.x, t))
H0Value == Deref(heap, env.h0)

\* <<h, c>> after chaining lstm_step_forward over x[:,0,:] .. x[:,t-1,:]
\* from <<h0, c0>>, each step run on a heap of its six arguments alone
RECURSIVE ChainFrom(_, _, _)
ChainFrom(h0, c0, t) ==
  IF t = 0 THEN <<h0, c0>>
  ELSE LET p == ChainFrom(h0, c0, t - 1)
           hp == <<XAt(t - 1), p[1], p[2], Deref(heap, env.Wx),
                   Deref(heap, env.Wh), Deref(heap, env.b)>>
           r == lstm_step_forward(hp, Ref(1), Ref(2), Ref(3), Ref(4), Ref(5), Ref(6))
       IN  <<Deref(r.heap, r.next_h), Deref(r.heap, r.next_c)>>

\* C2: lstm_forward starts the recurrence from an all-zero cell state: the
\* c_prev handed to timestep 0 is the zero matrix whatever h0 is, and the
\* returned h is what chaining lstm_step_forward from (h0, c0 = 0) gives.
C2_ZeroInitialCellState ==
  /\ Len(calls.fwd) >= 1 =>
       Deref(calls.fwd[1].pre, calls.fwd[1].prev_c)
         = Zeros(Rows(H0Value), Cols(H0Value))
  /\ ForwardReturned =>
       \A t \in 0..(fwd.T - 1) :
         Deref(heap, At(env.out, t))
           = ChainFrom(H0Value, Zeros(Rows(H0Value), Cols(H0Value)), t + 1)[1]

\* lstm_forward has returned from a sequence of two or more steps whose h0
\* is not zero
C2_Witness ==
  /\ pc = "fwd_ret"
  /\ fwd.T >= 2
  /\ Len(calls.fwd) = fwd.T
  /\ H0Value # Zeros(Rows(H0Value), Cols(H0Value))

\* C3: lstm_forward calls lstm_step_forward for t = 0, 1, .. in increasing
\* order, on x[:,t,:] and on exactly the (h, c) step t-1 produced (h0 and
\* zero at t = 0); the returned h has T entries, entry t the next_h of
\* step t.
C3_ForwardOrder ==
  /\ \A k \in 1..Len(calls.fwd) :
       LET c == calls.fwd[k]
       IN  /\ c.i = k - 1
           /\ c.i < TimeLen(heap, env.x)
           /\ Deref(c.pre, c.x) = XAt(k - 1)
           /\ Deref(c.pre, c.prev_h) =
                IF k = 1 THEN H0Value
                ELSE Deref(calls.fwd[k - 1].post, calls.fwd[k - 1].next_h)
           /\ Deref(c.pre, c.prev_c) =
                IF k = 1 THEN Zeros(Rows(H0Value), Cols(H0Value))
                ELSE Deref(calls.fwd[k - 1].post, calls.fwd[k - 1].next_c)
  /\ ForwardReturned =>
       /\ Len(calls.fwd) = TimeLen(heap, env.x)
       /\ TimeLen(heap, env.out) = TimeLen(heap, env.x)
       /\ \A t \in 0..(TimeLen(heap, env.x) - 1) :
            Deref(heap, At(env.out, t))
              = Deref(calls.fwd[t + 1].post, calls.fwd[t + 1].next_h)

\* lstm_forward has returned from a sequence of two or more steps
C3_Witness ==
  /\ pc = "fwd_ret"
  /\ Len(calls.fwd) >= 2
  /\ TimeLen(heap, env.out) = Len(calls.fwd)

\* the positions at which lstm_backward is running or has returned
BackwardEntered == pc \in {"bwd_loop", "done"}

\* what the k-th call of lstm_step_backward returned, as values
RetValue(k, f) == Deref(calls.bwd[k].post, calls.bwd[k].ret[f])

\* C4: lstm_backward calls lstm_step_backward for t = T-1, T-2, .. in
\* decreasing order; the hidden gradient it hands to step t is dh[:,t,:]
\* plus the dprev_h step t+1 returned (plus zero at t = T-1), the cell
\* gradient is the dprev_c step t+1 returned (zero at t = T-1), and the
\* dh0 returned is the dprev_h of step 0.
C4_BackwardThreading ==
  BackwardEntered =>
    /\ \A k \in 1..Len(calls.bwd) :
         LET c == calls.bwd[k]
             dht == Deref(bwd.entry, At(bwd.dh, c.i))
         IN  /\ c.i = bwd.T - k
             /\ Deref(c.pre, c.dnext_h) =
                  IF k = 1 THEN dht ELSE Add(dht, RetValue(k - 1, "dprev_h"))
             /\ Deref(c.pre, c.dnext_c) =
                  IF k = 1 THEN Zeros(Rows(dht), Cols(dht))
                  ELSE RetValue(k - 1, "dprev_c")
    /\ pc = "done" =>
         /\ Len(calls.bwd) = bwd.T
         /\ calls.bwd[bwd.T].i = 0
         /\ Deref(heap, env.grads[2]) = RetValue(bwd.T, "dprev_h")

\* lstm_backward has returned from two or more steps, the later of which
\* handed a non-zero dprev_h and a non-zero dprev_c back to the earlier
C4_Witness ==
  /\ pc = "done"
  /\ bwd.T >= 2
  /\ RetValue(1, "dprev_h") # Zeros(Rows(H0Value), Cols(H0Value))
  /\ RetValue(1, "dprev_c") # Zeros(Rows(H0Value), Cols(H0Value))

\* the sum of what the first k calls of lstm_step_backward returned as f
RECURSIVE SumRet(_, _, _)
SumRet(k, f, zero) ==
  IF k = 0 THEN zero
  ELSE IF f = "db" THEN AddV(SumRet(k - 1, f, zero), RetValue(k, f))
  ELSE Add(SumRet(k - 1, f, zero), RetValue(k, f))

\* C5: on return from lstm_backward, dWx, dWh and db are each the sum over
\* all T steps of what lstm_step_backward returned for it, and dx[:,t,:] is
\* the dx of step t alone.
C5_GradientSums ==
  pc = "done" =>
    LET D == Deref(heap, env.grads[1]).K
        H == Cols(H0Value)
    IN  /\ Len(calls.bwd) = bwd.T
        /\ Deref(heap, env.grads[3]) = SumRet(bwd.T, "dWx", Zeros(D, 4 * H))
        /\ Deref(heap, env.grads[4]) = SumRet(bwd.T, "dWh", Zeros(H, 4 * H))
        /\ Deref(heap, env.grads[5]) = SumRet(bwd.T, "db", Zeros1(4 * H))
        /\ \A k \in 1..bwd.T :
             Deref(heap, At(env.grads[1], calls.bwd[k].i)) = RetValue(k, "dx")

\* lstm_backward has returned from two or more steps, two of which
\* returned a non-zero dWx
C5_Witness ==
  /\ pc = "done"
  /\ bwd.T >= 2
  /\ \A k \in 1..2 :
       RetValue(k, "dWx") # Zeros(Rows(RetValue(k, "dWx")), Cols(RetValue(k, "dWx")))

\* C6: the forward pass leaves exactly one cache per timestep, under the
\* keys 0 .. T-1, the cache of key t being the one step t produced; the
\* backward pass hands to step t that cache and no other, and on return
\* has used each cache exactly once.
C6_CachePairing ==
  /\ ForwardReturned =>
       /\ DOMAIN env.cache = 0..(fwd.T - 1)
       /\ \A t \in DOMAIN env.cache : env.cache[t] = calls.fwd[t + 1].cache
       /\ \A s, t \in DOMAIN env.cache : s # t => env.cache[s] # env.cache[t]
  /\ BackwardEntered =>
       /\ \A k \in 1..Len(calls.bwd) :
            calls.bwd[k].cache = calls.fwd[calls.bwd[k].i + 1].cache
       /\ pc = "done" =>
            \A t \in 0..(fwd.T - 1) :
              Cardinality({k \in 1..Len(calls.bwd) :
                             calls.bwd[k].cache = calls.fwd[t + 1].cache}) = 1

\* a paired forward and backward pass of two or more steps has finished
C6_Witness ==
  /\ pc = "done"
  /\ fwd.T >= 2
  /\ Len(calls.bwd) = fwd.T

\* C7: lstm_step_backward is a pure function of its inputs: after every
\* call the caller's dnext_h, dnext_c and every element of the cache hold
\* the values they held before it.  (The code rewrites dnext_c.)
C7_StepBackwardPure ==
  \A k \in 1..Len(calls.bwd) :
    LET c == calls.bwd[k]
    IN  /\ Deref(c.post, c.dnext_h) = Deref(c.pre, c.dnext_h)
        /\ Deref(c.post, c.dnext_c) = Deref(c.pre, c.dnext_c)
        /\ \A j \in 1..Len(c.cache) :
             Deref(c.post, c.cache[j]) = Deref(c.pre, c.cache[j])

\* H-wide column block number j (0-based) of a 4H-wide matrix
Block(A, j) == Slice(A, j * (Cols(A) \div 4), (j + 1) * (Cols(A) \div 4))

\* d * s * (1 - s) and d * (1 - g ** 2): a gradient taken back through the
\* sigmoid whose value was s, and through the tanh whose value was g
ThroughSigmoid(d, s) == Mul(Mul(d, s), Sub1(s))
ThroughTanh(d, g) == Mul(d, Sub1(Sq(g)))

\* C8: forward and backward agree on the blocks of the 4H-wide activation:
\* lstm_step_forward computes the input gate, forget gate, output gate and
\* block input from column blocks 0, 1, 2, 3 of activation, and
\* lstm_step_backward writes the pre-activation gradient of the same gate
\* into the same block of dactivation (sigmoid derivative for blocks 0..2,
\* tanh derivative for block 3), every column being written exactly once.
C8_BlockOrder ==
  /\ \A k \in 1..Len(calls.fwd) :
       LET c == calls.fwd[k]
           V(j) == Deref(c.post, c.cache[j])
           activation == V(9)
       IN  /\ Cols(activation) = 4 * Cols(V(2))
           /\ V(10) = sigmoid(Block(activation, 0))
           /\ V(11) = sigmoid(Block(activation, 1))
           /\ V(12) = sigmoid(Block(activation, 2))
           /\ V(13) = TanhM(Block(activation, 3))
  /\ \A k \in 1..Len(calls.bwd) :
       LET c == calls.bwd[k]
           V(j) == Deref(c.post, c.cache[j])
           dh == Deref(c.post, c.dnext_h)
           dc == Deref(c.post, c.dnext_c)
           da == Deref(c.post, c.ret.dactivation)
       IN  /\ Cols(da) = 4 * Cols(dh)
           /\ Block(da, 0) = ThroughSigmoid(Mul(dc, V(13)), V(10))
           /\ Block(da, 1) = ThroughSigmoid(Mul(dc, V(3)), V(11))
           /\ Block(da, 2) = ThroughSigmoid(Mul(dh, TanhM(V(5))), V(12))
           /\ Block(da, 3) = ThroughTanh(Mul(dc, V(10)), V(13))
           /\ \A col \in 1..Cols(da) : c.ret.writes[col] = 1

\* a backward step has run whose forget-gate and output-gate blocks of
\* dactivation differ and whose hidden size is 2 or more
C8_Witness ==
  \E k \in 1..Len(calls.bwd) :
    LET da == Deref(calls.bwd[k].post, calls.bwd[k].ret.dactivation)
    IN  /\ Cols(da) >= 8
        /\ Block(da, 1) # Block(da, 2)
        /\ Block(da, 0) # Block(da, 3)

\* C10: a whole lstm_backward(dh, caches) changes neither the caller's dh
\* nor any cached array, nor any other array that existed when it was
\* called: the hidden and cell gradients it hands to lstm_step_backward are
\* arrays made after its entry, never dh, a view of dh or a cached array.
C10_BackwardKeepsCallerArrays ==
  BackwardEntered =>
    /\ \A a \in 1..Len(bwd.entry) : heap[a] = bwd.entry[a]
    /\ \A k \in 1..Len(calls.bwd) :
         LET c == calls.bwd[k]
             old == {Addr(bwd.dh)} \cup
                    {Addr(bwd.cache[t][j]) : t \in DOMAIN bwd.cache, j \in 1..13}
         IN  /\ Addr(c.dnext_h) > Len(bwd.entry)
             /\ Addr(c.dnext_c) > Len(bwd.entry)
             /\ Addr(c.dnext_h) \notin old
             /\ Addr(c.dnext_c) \notin old
             /\ \A a \in 1..Len(bwd.entry) : c.post[a] = bwd.entry[a]

\* lstm_backward has returned from two or more steps in each of which
\* lstm_step_backward rewrote its dnext_c argument
C10_Witness ==
  /\ pc = "done"
  /\ Len(calls.bwd) >= 2
  /\ \A k \in 1..Len(calls.bwd) :
       Deref(calls.bwd[k].post, calls.bwd[k].dnext_c)
         # Deref(calls.bwd[k].pre, calls.bwd[k].dnext_c)

\* the exponential's arguments recorded for element <<r, c>>
ExpArgsAt(r, c) == {a[3] : a \in {b \in sg.exp_args : b[1] = r /\ b[2] = c}}

\* C9: sigmoid puts every element in exactly one of its two branches,
\* evaluates the exponential only at a non-positive argument (-x for
\* x >= 0, x for x < 0), and returns 1 / (1 + e^-x) for x >= 0 and
\* e^x / (1 + e^x) for x < 0.
C9_SigmoidBranches ==
  /\ \A a \in sg.exp_args :
       /\ a[3] <= 0
       /\ a[3] = -Abs(sg.x[a[1]][a[2]])
  /\ pc \notin {"l78", "l79"} =>
       \A q \in Cells(sg.x) : sg.pos_mask[q[1]][q[2]] # sg.neg_mask[q[1]][q[2]]
  /\ pc = "ret" =>
       \A q \in Cells(sg.x) :
         LET x == sg.x[q[1]][q[2]]
         IN  /\ ExpArgsAt(q[1], q[2]) = {IF x >= 0 THEN -x ELSE x}
             /\ x >= 0 =>
                  /\ sg.top[q[1]][q[2]] = One
                  /\ sg.z[q[1]][q[2]] = Exp(-x)
                  /\ sg.ret[q[1]][q[2]] = FDiv(One, One + Exp(-x))
             /\ x < 0 =>
                  /\ sg.top[q[1]][q[2]] = Exp(x)
                  /\ sg.z[q[1]][q[2]] = Exp(x)
                  /\ sg.ret[q[1]][q[2]] = FDiv(Exp(x), One + Exp(x))

\* sigmoid has returned from an array holding 0.0 and a large negative
\* element
C9_Witness ==
  /\ pc = "ret"
  /\ \E q \in Cells(sg.x) : sg.x[q[1]][q[2]] = 0
  /\ \E q \in Cells(sg.x) : sg.x[q[1]][q[2]] <= -10000 * One

\* C11: on a sequence of length T = 0 lstm_forward returns an empty h and
\* an empty cache without calling lstm_step_forward, and lstm_backward on
\* that result stops at cache[0], before its loop, and returns no
\* gradients; lstm_backward returns only when T >= 1 and the cache has an
\* entry under every key 0 .. T-1.
C11_EmptySequence ==
  /\ (ForwardReturned /\ TimeLen(heap, env.x) = 0) =>
       /\ TimeLen(heap, env.out) = 0
       /\ DOMAIN env.cache = {}
       /\ Len(calls.fwd) = 0
       /\ pc \notin {"bwd_loop", "done"}
       /\ bwd = NoLocals
       /\ Len(calls.bwd) = 0
       /\ env.grads = <<>>
  /\ pc = "KeyError" =>
       /\ TimeLen(heap, env.x) = 0
       /\ 0 \notin DOMAIN env.cache
  /\ pc = "done" =>
       /\ bwd.T >= 1
       /\ \A t \in 0..(bwd.T - 1) : t \in DOMAIN bwd.cache
       /\ Len(env.grads) = 5

\* lstm_backward has stopped at cache[0] after lstm_forward returned from
\* a sequence of length 0
C11_Witness ==
  /\ pc = "KeyError"
  /\ TimeLen(heap, env.x) = 0
  /\ TimeLen(heap, env.out) = 0
  /\ env.dout # <<>>

====
